---- MODULE Spec2Model ----
(***************************************************************************)
(* State-machine model of vtkSinglePassVolumeMapper                        *)
(* (Rendering/Volume2/vtkSinglePassVolumeMapper.cxx).                      *)
(*                                                                         *)
(* One mapper instance, its vtkInternal object, the GL context it draws    *)
(* into, its input image data and the volume property are the state.       *)
(* Render is synchronous and single threaded, so one Render call is one    *)
(* step; replacing and modifying the input image data are the other        *)
(* steps.  The renderer, the volume, the mapper's blend mode and the       *)
(* property's independent-components flag are read by ValidateRender only  *)
(* and are inputs of the Render step, as the caller has set them.          *)
(*                                                                         *)
(* Representation notes                                                    *)
(*  - A field the constructor leaves unassigned holds Unassigned.          *)
(*  - Coordinates (Bounds) are kept in half units: the stored integer is   *)
(*    twice the double the code computes, so that "+ 0.5" is exact.        *)
(*  - A double quotient n/d is the pair <<n, d>>, not reduced.             *)
(*  - GL_CHECK_ERRORS is assert(glGetError() == GL_NO_ERROR) on the        *)
(*    driver's error flag; the driver is taken to raise no error.          *)
(***************************************************************************)
EXTENDS Integers, Sequences, FiniteSets, TLC

(* ------------------------------------------------------------------ *)
(* Bounds of the model                                                 *)
(* ------------------------------------------------------------------ *)
\* Largest value of the global vtkTimeStamp counter.
MaxTime == 4
\* Largest number of Render calls in a behaviour.
MaxRenders == 2
\* Largest number of control points the caller puts in a transfer function.
MaxPoints == 2

(* ------------------------------------------------------------------ *)
(* Value sets                                                          *)
(* ------------------------------------------------------------------ *)
Unassigned == "unassigned"

\* The scalar types named by the switches of ValidateRender and LoadVolume.
ScalarTypes ==
  { "VTK_FLOAT", "VTK_UNSIGNED_CHAR", "VTK_SIGNED_CHAR", "VTK_CHAR", "VTK_BIT",
    "VTK_ID_TYPE", "VTK_INT", "VTK_DOUBLE", "VTK___INT64", "VTK_LONG",
    "VTK_LONG_LONG", "VTK_UNSIGNED___INT64", "VTK_UNSIGNED_LONG",
    "VTK_UNSIGNED_LONG_LONG", "VTK_SHORT", "VTK_STRING", "VTK_UNSIGNED_SHORT",
    "VTK_UNSIGNED_INT" }

\* The four blend modes ValidateRender accepts, and one value outside them.
SupportedBlendModes ==
  { "COMPOSITE_BLEND", "MAXIMUM_INTENSITY_BLEND", "MINIMUM_INTENSITY_BLEND",
    "ADDITIVE_BLEND" }

BlendModes == SupportedBlendModes \cup { "OTHER_BLEND" }

\* What callers render with over a sequence of renders, as <<ren, vol, blend
\* mode, independent components>>: complete calls in composite and additive
\* mode with either component flag, an unsupported blend mode, a null
\* renderer and a null volume.
RenderArguments ==
  { <<TRUE, TRUE, "COMPOSITE_BLEND", FALSE>>,
    <<TRUE, TRUE, "COMPOSITE_BLEND", TRUE>>,
    <<TRUE, TRUE, "ADDITIVE_BLEND", FALSE>>,
    <<TRUE, TRUE, "OTHER_BLEND", FALSE>>,
    <<FALSE, TRUE, "COMPOSITE_BLEND", FALSE>>,
    <<TRUE, FALSE, "COMPOSITE_BLEND", FALSE>> }

\* Component counts of a scalar array.
ComponentCounts == { 1, 2, 3, 4 }

\* Association reported by GetScalars: 0 point data, 1 cell data, 2 field data.
CellFlags == { 0, 1, 2 }

\* The uniform slots declared by Initialize.
DeclaredUniforms ==
  { "scene_matrix", "modelview_matrix", "projection_matrix", "volume",
    "camera_pos", "light_pos", "step_size", "sample_distance", "scale",
    "cell_scale", "color_transfer_func", "opacity_transfer_func", "noise",
    "vol_extents_min", "vol_extents_max", "texture_extents_min",
    "texture_extents_max", "texture_coord_offset", "enable_shading",
    "ambient", "diffuse", "specular", "shininess" }

(* ------------------------------------------------------------------ *)
(* The input image data                                                *)
(* ------------------------------------------------------------------ *)
\* Extent, spacing and origin of a 10 x 10 x 10 image.
DefaultGeometry ==
  [extent |-> <<0, 9, 0, 9, 0, 9>>, spacing |-> <<1, 1, 1>>,
   origin |-> <<0, 0, 0>>]

\* An image data object: hasScalars and association are what GetScalars
\* finds on it, dataType and comps describe the scalar array found.
DataSet(hasScalars, association, dataType, comps, range, geometry) ==
  [hasScalars |-> hasScalars, association |-> association,
   dataType |-> dataType, comps |-> comps, range |-> range,
   extent |-> geometry.extent, spacing |-> geometry.spacing,
   origin |-> geometry.origin]

\* Every image data the validation can be confronted with.
AllDataSets ==
  { DataSet(h, a, t, c, <<0, 1>>, DefaultGeometry) :
      h \in BOOLEAN, a \in CellFlags, t \in ScalarTypes, c \in ComponentCounts }

\* The image data the pipeline delivers over a sequence of renders: one
\* of each kind the code treats differently.
DataSets ==
  { DataSet(TRUE, 0, "VTK_FLOAT", 1, <<0, 1>>, DefaultGeometry),
    DataSet(TRUE, 0, "VTK_UNSIGNED_CHAR", 4, <<0, 1>>, DefaultGeometry),
    DataSet(TRUE, 0, "VTK_LONG_LONG", 1, <<0, 1>>, DefaultGeometry),
    DataSet(TRUE, 0, "VTK_CHAR", 1, <<0, 1>>, DefaultGeometry),
    DataSet(TRUE, 1, "VTK_UNSIGNED_SHORT", 1, <<-2, 2>>,
            [extent |-> <<-1, 2, 0, 1, 3, 4>>, spacing |-> <<-1, 2, 1>>,
             origin |-> <<1, 0, -1>>]) }

\* The mapper's input: absent (NULL) or present with a modification time.
NoInput ==
  [present |-> FALSE, mtime |-> 0,
   data |-> DataSet(FALSE, 0, "VTK_FLOAT", 1, <<0, 1>>, DefaultGeometry)]

\* An input whose modification time is 0, that of a time stamp never
\* modified.
InputNeverStamped(ds, t) == [present |-> TRUE, mtime |-> 0, data |-> ds]

Input(ds, t) == [present |-> TRUE, mtime |-> t, data |-> ds]

(* ------------------------------------------------------------------ *)
(* State                                                               *)
(* ------------------------------------------------------------------ *)
VARIABLES
  impl,                  \* vtkSinglePassVolumeMapper::vtkInternal
  gl,                    \* the GL context the mapper renders into
  clock,                 \* the global vtkTimeStamp counter
  input,                 \* this->GetInput()
  Bounds,                \* vtkAbstractMapper3D::Bounds, in half units
  volumeProperty,        \* vol->GetProperty()
  frame,                 \* what the last Render call did
  stats                  \* what the instance did since construction

vars ==
  <<impl, gl, clock, input, Bounds, volumeProperty, frame, stats>>

VTK_INT_MAX == 2147483647
VTK_INT_MIN == -VTK_INT_MAX - 1

\* vtkInternal as its constructor leaves it.
ImplInit ==
  [Initialized |-> FALSE,
   ValidTransferFunction |-> FALSE,
   CubeVBOId |-> 0, CubeVAOId |-> 0, CubeIndicesId |-> 0,
   VolumeTextureId |-> 0, TransferFuncId |-> 0, NoiseTextureId |-> 0,
   CellFlag |-> 0,
   TextureWidth |-> 1024,
   RGBTable |-> "null",
   TextureSize |-> <<-1, -1, -1>>,
   CellScale |-> << <<0, 1>>, <<0, 1>>, <<0, 1>> >>,
   NoiseTextureData |-> "null",
   Extents |-> <<VTK_INT_MAX, VTK_INT_MIN, VTK_INT_MAX, VTK_INT_MIN,
                 VTK_INT_MAX, VTK_INT_MIN>>,
   \* not assigned by the constructor
   OpacityTables |-> Unassigned,
   BlendMode |-> Unassigned,
   ScalarsRange |-> <<>>,
   Bounds |-> <<>>,
   StepSize |-> <<>>,
   Scale |-> <<>>,
   NoiseTextureSize |-> -1,
   ElapsedDrawTime |-> Unassigned,
   \* vtkTimeStamp starts at 0
   VolumeBuildTime |-> 0,
   Shader |-> [linked |-> FALSE, attributes |-> {}, uniforms |-> {}]]

\* The GL context before the mapper first touches it: the capabilities
\* earlier draws left enabled, whether GL_ARB_texture_float is supported and
\* GL_MAX_TEXTURE_SIZE.
GLInit(enabled, textureFloat, maxTextureSize) ==
  [enabled |-> enabled,
   textureFloat |-> textureFloat,
   maxTextureSize |-> maxTextureSize,
   activeTexture |-> 0,
   program |-> "none",
   boundVAO |-> 0,
   textures |-> <<>>,      \* texture names generated: name i is textures[i]
   buffers |-> 0,          \* number of buffer names generated
   vertexArrays |-> 0,     \* number of vertex array names generated
   bound3D |-> 0,          \* texture bound to GL_TEXTURE_3D on unit 0
   bound2D |-> 0,          \* texture bound to GL_TEXTURE_2D on unit 3
   cube |-> [vertices |-> <<>>, indices |-> <<>>],
   uniforms |-> {},        \* uniform slots that hold a value
   draws |-> <<>>]         \* index counts of the draw calls issued

\* The context the mapper finds itself in: blending and 2D texturing left
\* enabled by earlier draws, float textures supported, textures up to 64.
GLContext == GLInit({ "GL_BLEND", "GL_TEXTURE_2D" }, TRUE, 64)

\* The record of the Render call that was the last step; it is empty when
\* the last step was another operation.
FrameInit ==
  [called |-> FALSE,       \* the last step was a Render call
   ren |-> FALSE,          \* its renderer was not null
   vol |-> FALSE,          \* its volume was not null
   blendMode |-> "COMPOSITE_BLEND",  \* the mapper's blend mode at the call
   independent |-> FALSE,  \* the property's independent-components flag
   validated |-> FALSE,    \* ValidateRender's return value
   diagnostics |-> <<>>,   \* vtkErrorMacro / cerr messages, in order
   evaluated |-> <<>>,     \* validation checks whose condition was evaluated
   steps |-> <<>>,         \* operations of the render, in order
   events |-> <<>>,        \* events invoked on the mapper, in order
   dirtyChecked |-> FALSE, \* IsDataDirty was called
   dirty |-> FALSE,        \* result of IsDataDirty, FALSE if not called
   mtimeAtCheck |-> 0,     \* input's mtime when IsDataDirty was called
   buildTimeAtCheck |-> 0, \* VolumeBuildTime when IsDataDirty was called
   opacityResult |-> -1,   \* UpdateOpacityTransferFunction's return value
   colorResult |-> -1,     \* UpdateColorTransferFunction's return value
   opacityUpdate |-> <<>>, \* arguments of the opacity table's Update
   colorUpdate |-> <<>>,   \* arguments of the color table's Update
   errors |-> <<>>,        \* messages written to cerr by GPURender's callees
   encoded |-> <<>>,       \* scalar layouts LoadVolume chose a format for
   seeded |-> {},          \* transfer functions that got default points
   noiseGenerated |-> 0,   \* noise grids generated
   uniforms |-> {},        \* uniform slots assigned in this render
   draws |-> <<>>,         \* index counts of the draw calls of this render
   volExtents |-> <<>>,    \* values given to vol_extents_min and _max
   deleted |-> <<>>,       \* pointers the destructor passed to delete
   glTouched |-> {}]       \* capabilities passed to glEnable / glDisable

StatsInit ==
  [renders |-> 0,          \* Render calls
   validated |-> 0,        \* Render calls that passed ValidateRender
   initializeCalls |-> 0,  \* Initialize calls
   uploads |-> 0,          \* LoadVolume calls
   volumeTextures |-> {},  \* every name ever stored in VolumeTextureId
   colorSeedings |-> 0,    \* renders that added points to the color function
   opacitySeedings |-> 0]  \* renders that added points to the opacity function

\* vol->GetProperty() with the transfer functions the caller has not put a
\* control point in: each function is the sequence of its control points.
EmptyProperty == [RGBTransferFunction |-> <<>>, ScalarOpacity |-> <<>>]

\* The world a Render call works on, threaded through its operations.
World ==
  [impl |-> impl, gl |-> gl, clock |-> clock, input |-> input,
   volumeProperty |-> volumeProperty, frame |-> FrameInit, stats |-> stats]

Step(w, name) == [w EXCEPT !.frame.steps = Append(@, name)]

(* ------------------------------------------------------------------ *)
(* ValidateRender                                                      *)
(* ------------------------------------------------------------------ *)
\* vtkAbstractMapper::GetScalars as the mapper uses it: the array found on
\* the data (or none) and the association written to cellFlag.
GetScalars(in) ==
  [found |-> in.data.hasScalars, cellFlag |-> in.data.association]

\* The local state of ValidateRender: goodSoFar, the diagnostics reported,
\* the checks whose condition was evaluated and numberOfComponents.
ValidationStart ==
  [goodSoFar |-> TRUE, diagnostics |-> <<>>, evaluated |-> <<>>,
   numberOfComponents |-> 0]

Evaluate(v, check) == [v EXCEPT !.evaluated = Append(@, check)]

\* goodSoFar = 0; vtkErrorMacro(message)
Reject(v, message) ==
  [v EXCEPT !.goodSoFar = FALSE, !.diagnostics = Append(@, message)]

\* if (!ren)
CheckRenderer(v, ren) ==
  LET e == Evaluate(v, "renderer")
  IN  IF ~ren THEN Reject(e, "Renderer cannot be null.") ELSE e

\* The volume check without goodSoFar in its condition.
CheckVolumeUnguarded(v, vol) ==
  LET e == Evaluate(v, "volume")
  IN  IF ~vol THEN Reject(e, "Volume cannot be null.") ELSE e

\* if (goodSoFar && !vol)
CheckVolume(v, vol) ==
  IF v.goodSoFar
    THEN LET e == Evaluate(v, "volume")
         IN  IF ~vol THEN Reject(e, "Volume cannot be null.") ELSE e
    ELSE v

\* if (goodSoFar && input == 0)
CheckInput(v, in) ==
  IF v.goodSoFar
    THEN LET e == Evaluate(v, "input")
         IN  IF ~in.present
               THEN Reject(e, "Input is NULL but is required")
               ELSE e
    ELSE v

\* The scalars check without its else-if branch for field data.
CheckScalarsAnyAssociation(v, in) ==
  IF v.goodSoFar
    THEN LET e == Evaluate(v, "scalars")
         IN  IF ~GetScalars(in).found
               THEN Reject(e, "No scalars found on input.")
               ELSE e
    ELSE v

\* if (goodSoFar) { scalars = GetScalars(...); if (!scalars) ... else if
\* (CellFlag == 2) ... }
CheckScalars(v, in) ==
  IF v.goodSoFar
    THEN LET e == Evaluate(v, "scalars")
         IN  IF ~GetScalars(in).found
               THEN Reject(e, "No scalars found on input.")
               ELSE IF GetScalars(in).cellFlag = 2
                 THEN Reject(e,
                   "Only point or cell scalar support - found field scalars instead.")
                 ELSE e
    ELSE v

\* The scalar types the switch of ValidateRender rejects.
RejectedScalarTypes == { "VTK_CHAR", "VTK_BIT", "VTK_ID_TYPE", "VTK_STRING" }

\* if (goodSoFar) switch (scalars->GetDataType())
CheckScalarType(v, in) ==
  IF v.goodSoFar
    THEN LET e == Evaluate(v, "scalar type")
         IN  IF in.data.dataType \in RejectedScalarTypes
               THEN Reject(e, "scalar type is not supported by this mapper.")
               ELSE e
    ELSE v

\* if (goodSoFar) if (BlendMode is none of the four modes)
CheckBlendMode(v, blendMode) ==
  IF v.goodSoFar
    THEN LET e == Evaluate(v, "blend mode")
         IN  IF /\ blendMode # "COMPOSITE_BLEND"
                /\ blendMode # "MAXIMUM_INTENSITY_BLEND"
                /\ blendMode # "MINIMUM_INTENSITY_BLEND"
                /\ blendMode # "ADDITIVE_BLEND"
               THEN Reject(e, "Selected blend mode not supported.")
               ELSE e
    ELSE v

\* if (goodSoFar) { numberOfComponents = ...; if (!(n == 1 || (n == 4 &&
\* independent components == 0))) ... }
CheckComponents(v, in, independent) ==
  IF v.goodSoFar
    THEN LET e == [Evaluate(v, "component count")
                     EXCEPT !.numberOfComponents = in.data.comps]
         IN  IF ~(\/ e.numberOfComponents = 1
                  \/ /\ e.numberOfComponents = 4
                     /\ ~independent)
               THEN Reject(e,
                 "Only one component scalars, or four component with non-independent components, are supported by this mapper.")
               ELSE e
    ELSE v

\* The four-component check accepting every scalar type.
CheckFourComponentAnyType(v, in) ==
  IF v.goodSoFar THEN Evaluate(v, "four component type") ELSE v

\* if (goodSoFar && numberOfComponents == 4 && type != VTK_UNSIGNED_CHAR)
CheckFourComponentType(v, in) ==
  IF v.goodSoFar
    THEN LET e == Evaluate(v, "four component type")
         IN  IF /\ e.numberOfComponents = 4
                /\ in.data.dataType # "VTK_UNSIGNED_CHAR"
               THEN Reject(e,
                 "Only unsigned char is supported for 4-component scalars!")
               ELSE e
    ELSE v

\* if (goodSoFar && numberOfComponents != 1 && BlendMode == ADDITIVE_BLEND)
CheckAdditive(v, blendMode) ==
  IF v.goodSoFar
    THEN LET e == Evaluate(v, "additive")
         IN  IF e.numberOfComponents # 1 /\ blendMode = "ADDITIVE_BLEND"
               THEN Reject(e,
                 "Additive mode only works with 1-component scalars!")
               ELSE e
    ELSE v

\* if (goodSoFar) this->GetInputAlgorithm()->Update(): when the pipeline is
\* out of date the source re-executes and the output gets a new mtime.
UpdateInputAlgorithm(w, v, outOfDate) ==
  IF v.goodSoFar /\ outOfDate
    THEN [w EXCEPT !.clock = @ + 1, !.input.mtime = w.clock + 1]
    ELSE w

\* The checks of ValidateRender up to the input check.
PresenceChecks(w, ren, vol) ==
  CheckInput(CheckVolume(CheckRenderer(ValidationStart, ren), vol), w.input)

\* The checks of ValidateRender, in the order of the code.
ValidationChecks(w, ren, vol, blendMode, independent) ==
  LET v3 == PresenceChecks(w, ren, vol)
      v4 == CheckScalars(v3, w.input)
      v5 == CheckScalarType(v4, w.input)
      v6 == CheckBlendMode(v5, blendMode)
      v7 == CheckComponents(v6, w.input, independent)
      v8 == CheckFourComponentType(v7, w.input)
  IN  CheckAdditive(v8, blendMode)

\* ValidateRender(ren, vol): the world after the call; the return value is
\* frame.validated.  blendMode is this->BlendMode and independent is
\* vol->GetProperty()->GetIndependentComponents() != 0 as the call finds them.  GetScalars writes Implementation->CellFlag when it is
\* reached.
ValidateRender(w, ren, vol, blendMode, independent, outOfDate) ==
  LET v3 == PresenceChecks(w, ren, vol)
      w1 == UpdateInputAlgorithm(w, v3, outOfDate)
      w2 == IF v3.goodSoFar
              THEN [w1 EXCEPT !.impl.CellFlag = GetScalars(w1.input).cellFlag]
              ELSE w1
      v  == ValidationChecks(w, ren, vol, blendMode, independent)
  IN  [w2 EXCEPT !.frame.validated = v.goodSoFar,
                 !.frame.diagnostics = v.diagnostics,
                 !.frame.evaluated = v.evaluated]

(* ------------------------------------------------------------------ *)
(* GL calls                                                            *)
(* ------------------------------------------------------------------ *)
glEnable(w, cap) ==
  [w EXCEPT !.gl.enabled = @ \cup { cap },
            !.frame.glTouched = @ \cup { cap }]

glDisable(w, cap) ==
  [w EXCEPT !.gl.enabled = @ \ { cap },
            !.frame.glTouched = @ \cup { cap }]

glActiveTexture(w, unit) == [w EXCEPT !.gl.activeTexture = unit]

\* glGenTextures(1, &name): a name not generated before.
GeneratedTexture(w) == Len(w.gl.textures) + 1

glGenTextures(w, target) ==
  [w EXCEPT !.gl.textures = Append(@, [target |-> target, image |-> <<>>])]

\* glTexImage3D / glTexImage2D on the texture called name.
glTexImage(w, name, image) ==
  [w EXCEPT !.gl.textures[name].image = image]

\* glUniform*(Shader(name), ...)
glUniform(w, name) ==
  [w EXCEPT !.gl.uniforms = @ \cup { name },
            !.frame.uniforms = @ \cup { name }]

RECURSIVE glUniforms(_, _)
glUniforms(w, names) ==
  IF names = <<>> THEN w
  ELSE glUniforms(glUniform(w, Head(names)), Tail(names))

\* glDrawElements(GL_TRIANGLES, count, GL_UNSIGNED_SHORT, 0)
glDrawElements(w, count) ==
  [w EXCEPT !.gl.draws = Append(@, count),
            !.frame.draws = Append(@, count)]

(* ------------------------------------------------------------------ *)
(* vtkInternal                                                         *)
(* ------------------------------------------------------------------ *)
IsInitialized(w) == w.impl.Initialized

\* Initialize without its last statement (this->Initialized = true).
InitializeWithoutFlag(w) ==
  LET used == [w EXCEPT !.gl.program = "raycaster"]
      made == [used EXCEPT
                 !.impl.Shader = [linked |-> TRUE,
                                  attributes |-> { "in_vertex_pos" },
                                  uniforms |-> DeclaredUniforms],
                 !.impl.CubeVAOId = used.gl.vertexArrays + 1,
                 !.gl.vertexArrays = @ + 1,
                 !.impl.CubeVBOId = used.gl.buffers + 1,
                 !.impl.CubeIndicesId = used.gl.buffers + 2,
                 !.gl.buffers = @ + 2,
                 !.impl.RGBTable = "allocated",
                 !.impl.OpacityTables = "allocated"]
  IN  Step([made EXCEPT !.gl.program = "none",
                        !.stats.initializeCalls = @ + 1],
           "Initialize")

Initialize(w) ==
  LET used == [w EXCEPT !.gl.program = "raycaster"]
      made == [used EXCEPT
                 !.impl.Shader = [linked |-> TRUE,
                                  attributes |-> { "in_vertex_pos" },
                                  uniforms |-> DeclaredUniforms],
                 !.impl.CubeVAOId = used.gl.vertexArrays + 1,
                 !.gl.vertexArrays = @ + 1,
                 !.impl.CubeVBOId = used.gl.buffers + 1,
                 !.impl.CubeIndicesId = used.gl.buffers + 2,
                 !.gl.buffers = @ + 2,
                 !.impl.RGBTable = "allocated",
                 !.impl.OpacityTables = "allocated"]
  IN  Step([made EXCEPT !.gl.program = "none",
                        !.impl.Initialized = TRUE,
                        !.stats.initializeCalls = @ + 1],
           "Initialize")

\* IsDataDirty with >= for >.
IsDataDirtyOrEqual(w) == w.input.mtime >= w.impl.VolumeBuildTime

\* if (input->GetMTime() > this->VolumeBuildTime.GetMTime())
IsDataDirty(w) == w.input.mtime > w.impl.VolumeBuildTime

\* The maximum of the destination type, by name: the numerator of the scale.
TypeMax(dataType) ==
  CASE dataType = "VTK_FLOAT"          -> "1"
    [] dataType = "VTK_UNSIGNED_CHAR"  -> "VTK_UNSIGNED_CHAR_MAX"
    [] dataType = "VTK_SIGNED_CHAR"    -> "VTK_SIGNED_CHAR_MAX"
    [] dataType = "VTK_INT"            -> "VTK_INT_MAX"
    [] dataType = "VTK_SHORT"          -> "VTK_SHORT_MAX"
    [] dataType = "VTK_UNSIGNED_SHORT" -> "VTK_UNSIGNED_SHORT_MAX"
    [] dataType = "VTK_UNSIGNED_INT"   -> "VTK_UNSIGNED_INT_MAX"
    [] OTHER                           -> "1"

\* The scalar types for which the switch of LoadVolume assigns a texture
\* format.
EncodedScalarTypes ==
  { "VTK_FLOAT", "VTK_UNSIGNED_CHAR", "VTK_SIGNED_CHAR", "VTK_INT",
    "VTK_SHORT", "VTK_UNSIGNED_SHORT", "VTK_UNSIGNED_INT" }

\* internalFormat, format and type as LoadVolume chooses them; "0" is the
\* initial value of the three locals, left when no case assigns them.
TextureFormat(dataType, comps, textureFloat) ==
  IF comps = 4
    THEN [internalFormat |-> "GL_RGBA16", format |-> "GL_RGBA",
          type |-> "GL_UNSIGNED_BYTE"]
  ELSE IF dataType = "VTK_FLOAT"
    THEN [internalFormat |->
            IF textureFloat THEN "INTENSITY16F_ARB" ELSE "GL_INTENSITY16",
          format |-> "GL_RED", type |-> "GL_FLOAT"]
  ELSE IF dataType = "VTK_UNSIGNED_CHAR"
    THEN [internalFormat |-> "GL_INTENSITY8", format |-> "GL_RED",
          type |-> "GL_UNSIGNED_BYTE"]
  ELSE IF dataType = "VTK_SIGNED_CHAR"
    THEN [internalFormat |-> "GL_INTENSITY8", format |-> "GL_RED",
          type |-> "GL_BYTE"]
  ELSE IF dataType = "VTK_INT"
    THEN [internalFormat |-> "GL_INTENSITY16", format |-> "GL_RED",
          type |-> "GL_INT"]
  ELSE IF dataType = "VTK_SHORT"
    THEN [internalFormat |-> "GL_INTENSITY16", format |-> "GL_RED",
          type |-> "GL_SHORT"]
  ELSE IF dataType = "VTK_UNSIGNED_SHORT"
    THEN [internalFormat |-> "GL_INTENSITY16", format |-> "GL_RED",
          type |-> "GL_UNSIGNED_SHORT"]
  ELSE IF dataType = "VTK_UNSIGNED_INT"
    THEN [internalFormat |-> "GL_INTENSITY16", format |-> "GL_RED",
          type |-> "GL_UNSIGNED_INT"]
  ELSE [internalFormat |-> "0", format |-> "0", type |-> "0"]

\* The limits of vtkType.h that LoadVolume divides by and divides, by name,
\* as the two base-65536 digits <<high, low>> of their values.
LimitValue(name) ==
  CASE name = "1"                      -> <<0, 1>>
    [] name = "VTK_SIGNED_CHAR_MAX"    -> <<0, 127>>
    [] name = "VTK_UNSIGNED_CHAR_MAX"  -> <<0, 255>>
    [] name = "VTK_SHORT_MAX"          -> <<0, 32767>>
    [] name = "VTK_UNSIGNED_SHORT_MAX" -> <<0, 65535>>
    [] name = "VTK_INT_MAX"            -> <<32767, 65535>>
    [] name = "VTK_UNSIGNED_INT_MAX"   -> <<65535, 65535>>

\* shift as LoadVolume computes it: <<numerator, name of the limit it is
\* divided by>>, 0.0 for four components and for the types no case computes
\* it for.
TextureShift(dataType, comps, range) ==
  IF comps = 4 THEN <<0, "1">>
  ELSE CASE dataType = "VTK_FLOAT" -> <<-range[1], "1">>
    [] dataType = "VTK_UNSIGNED_CHAR" ->
         <<-range[1], "VTK_UNSIGNED_CHAR_MAX">>
    [] dataType = "VTK_SIGNED_CHAR" ->
         <<-(2 * range[1] + 1), "VTK_UNSIGNED_CHAR_MAX">>
    [] dataType = "VTK_INT" ->
         <<-(2 * range[1] + 1), "VTK_UNSIGNED_INT_MAX">>
    [] dataType = "VTK_SHORT" ->
         <<-(2 * range[1] + 1), "VTK_UNSIGNED_SHORT_MAX">>
    [] dataType = "VTK_UNSIGNED_SHORT" ->
         <<-range[1], "VTK_UNSIGNED_SHORT_MAX">>
    [] dataType = "VTK_UNSIGNED_INT" ->
         <<-range[1], "VTK_UNSIGNED_INT_MAX">>
    [] OTHER -> <<0, "1">>

\* TextureScale dividing by minimum - maximum of the range.
TextureScaleReversed(dataType, comps, range) ==
  IF comps # 4 /\ dataType \in EncodedScalarTypes
    THEN <<TypeMax(dataType), range[1] - range[2]>>
    ELSE <<"1", 1>>

\* scale as LoadVolume computes it: <<numerator, denominator>>, 1.0 for
\* four components and for the types no case computes it for.
TextureScale(dataType, comps, range) ==
  IF comps # 4 /\ dataType \in EncodedScalarTypes
    THEN <<TypeMax(dataType), range[2] - range[1]>>
    ELSE <<"1", 1>>

LoadVolume(w) ==
  LET data   == w.input.data
      name   == GeneratedTexture(w)
      gen    == glGenTextures(glActiveTexture(w, 0), "GL_TEXTURE_3D")
      bound  == [gen EXCEPT !.impl.VolumeTextureId = name,
                            !.gl.bound3D = name,
                            !.stats.volumeTextures = @ \cup { name }]
      fmt    == TextureFormat(data.dataType, data.comps, w.gl.textureFloat)
      size   == [i \in 1..3 |-> data.extent[2 * i] - data.extent[2 * i - 1] + 1]
      sized  == [bound EXCEPT
                   !.impl.Scale =
                     TextureScale(data.dataType, data.comps,
                                  w.impl.ScalarsRange),
                   !.impl.Extents = data.extent,
                   !.impl.TextureSize = size,
                   !.frame.encoded =
                     Append(@, [dataType |-> data.dataType,
                                comps |-> data.comps, format |-> fmt,
                                shift |->
                                  TextureShift(data.dataType, data.comps,
                                               w.impl.ScalarsRange),
                                scale |->
                                  TextureScale(data.dataType, data.comps,
                                               w.impl.ScalarsRange)])]
      filled == glTexImage(sized, name, <<fmt, size>>)
  IN  Step([filled EXCEPT !.clock = @ + 1,
                          !.impl.VolumeBuildTime = filled.clock + 1,
                          !.stats.uploads = @ + 1],
           "LoadVolume")

\* swapBounds[i] left at 0 whatever the spacing.
SwapBoundsNever(spacing, i) == 0

\* spacing[i] < 0, as 0 or 1
SwapBounds(spacing, i) == IF spacing[i] < 0 THEN 1 ELSE 0

\* The bounds in half units.  Axis i is 1..3; Extents[k] of the code is
\* extent[k + 1] here, Bounds[k] is the entry k + 1 of the result.
PointBounds(extent, spacing, origin) ==
  [k \in 1..6 |->
     LET i == (k + 1) \div 2
         s == SwapBounds(spacing, i)
     IN  IF k % 2 = 1
           THEN 2 * origin[i] + 2 * extent[2 * i - 1 + s] * spacing[i]
           ELSE 2 * origin[i] + 2 * extent[2 * i - s] * spacing[i]]

\* input->GetExtent(wholeTextureExtent), the upper edges decremented
WholeTextureExtent(extent) ==
  [k \in 1..6 |-> IF k % 2 = 0 THEN extent[k] - 1 ELSE extent[k]]

\* The value the cell branch stores for the lower and the upper edge of axis i.
CellLower(extent, spacing, origin, i) ==
  IF extent[2 * i - 1] = WholeTextureExtent(extent)[2 * i - 1]
    THEN 2 * origin[i]
    ELSE 2 * origin[i] + (2 * extent[2 * i - 1] + 1) * spacing[i]

CellUpper(extent, spacing, origin, i) ==
  IF extent[2 * i] = WholeTextureExtent(extent)[2 * i]
    THEN 2 * origin[i] + (2 * extent[2 * i] + 2) * spacing[i]
    ELSE 2 * origin[i] + (2 * extent[2 * i] + 1) * spacing[i]

\* Bounds[2i + swap] gets the lower-edge value, Bounds[2i + 1 - swap] the
\* upper-edge value.
CellBounds(extent, spacing, origin) ==
  [k \in 1..6 |->
     LET i == (k + 1) \div 2
         s == SwapBounds(spacing, i)
         lowerSlot == 2 * i - 1 + s
     IN  IF k = lowerSlot
           THEN CellLower(extent, spacing, origin, i)
           ELSE CellUpper(extent, spacing, origin, i)]

ComputeBounds(w) ==
  LET data == w.input.data
  IN  Step([w EXCEPT
              !.impl.Extents = data.extent,
              !.impl.Bounds =
                IF w.impl.CellFlag = 0
                  THEN PointBounds(data.extent, data.spacing, data.origin)
                  ELSE CellBounds(data.extent, data.spacing, data.origin)],
           "ComputeBounds")

\* The index list with the last triangle wound the other way.
CubeIndicesLastReversed ==
  << 0, 5, 4,   5, 0, 1,   3, 7, 6,   3, 6, 2,   7, 4, 6,   6, 4, 5,
     2, 1, 3,   3, 1, 0,   3, 0, 7,   7, 0, 4,   6, 5, 2,   2, 1, 5 >>

\* The 36 indices UpdateVolumeGeometry uploads.
CubeIndices ==
  << 0, 5, 4,   5, 0, 1,   3, 7, 6,   3, 6, 2,   7, 4, 6,   6, 4, 5,
     2, 1, 3,   3, 1, 0,   3, 0, 7,   7, 0, 4,   6, 5, 2,   2, 5, 1 >>

\* The 8 corners, from Bounds b (entry k + 1 is Bounds[k]).
CubeVertices(b) ==
  << <<b[1], b[3], b[5]>>, <<b[2], b[3], b[5]>>, <<b[2], b[4], b[5]>>,
     <<b[1], b[4], b[5]>>, <<b[1], b[3], b[6]>>, <<b[2], b[3], b[6]>>,
     <<b[2], b[4], b[6]>>, <<b[1], b[4], b[6]>> >>

UpdateVolumeGeometry(w) ==
  Step([w EXCEPT !.gl.cube = [vertices |-> CubeVertices(w.impl.Bounds),
                              indices |-> CubeIndices],
                 !.gl.boundVAO = 0],
       "UpdateVolumeGeometry")

\* colorTransferFunction->AddRGBPoint(x, r, g, b)
AddRGBPoint(f, x, rgb) == Append(f, [x |-> x, value |-> rgb])

\* scalarOpacity->AddPoint(x, y); y is "0.0" or "0.5"
AddPoint(f, x, y) == Append(f, [x |-> x, value |-> y])

\* UpdateColorTransferFunction adding the two points to a function of fewer
\* than two points.
UpdateColorTransferFunctionBelowTwo(w, numberOfScalarComponents) ==
  IF numberOfScalarComponents = 1
    THEN LET seeded ==
               IF Len(w.volumeProperty.RGBTransferFunction) < 2
                 THEN [w EXCEPT
                         !.volumeProperty.RGBTransferFunction =
                           AddRGBPoint(
                             AddRGBPoint(@, w.impl.ScalarsRange[1], <<0, 0, 0>>),
                             w.impl.ScalarsRange[2], <<1, 1, 1>>),
                         !.stats.colorSeedings = @ + 1,
                         !.frame.seeded = @ \cup { "color" }]
                 ELSE w
         IN  Step([glActiveTexture(seeded, 0) EXCEPT
                     !.impl.RGBTable = "loaded",
                     !.frame.colorUpdate = <<w.impl.ScalarsRange>>,
                     !.frame.colorResult = 0],
                  "UpdateColorTransferFunction")
    ELSE Step([w EXCEPT
                 !.frame.errors = Append(@,
                   "SinglePass volume mapper does not handle multi-component scalars"),
                 !.frame.colorResult = 1],
              "UpdateColorTransferFunction")

\* Returns 0 (passed) or 1 (failed) in frame.colorResult.
UpdateColorTransferFunction(w, numberOfScalarComponents) ==
  IF numberOfScalarComponents = 1
    THEN LET seeded ==
               IF Len(w.volumeProperty.RGBTransferFunction) < 1
                 THEN [w EXCEPT
                         !.volumeProperty.RGBTransferFunction =
                           AddRGBPoint(
                             AddRGBPoint(@, w.impl.ScalarsRange[1], <<0, 0, 0>>),
                             w.impl.ScalarsRange[2], <<1, 1, 1>>),
                         !.stats.colorSeedings = @ + 1,
                         !.frame.seeded = @ \cup { "color" }]
                 ELSE w
         IN  Step([glActiveTexture(seeded, 0) EXCEPT
                     !.impl.RGBTable = "loaded",
                     !.frame.colorUpdate = <<w.impl.ScalarsRange>>,
                     !.frame.colorResult = 0],
                  "UpdateColorTransferFunction")
    ELSE Step([w EXCEPT
                 !.frame.errors = Append(@,
                   "SinglePass volume mapper does not handle multi-component scalars"),
                 !.frame.colorResult = 1],
              "UpdateColorTransferFunction")

\* UpdateOpacityTransferFunction adding the two points on every call.
UpdateOpacityTransferFunctionSeedingAlways(w, vol, numberOfScalarComponents, level) ==
  IF ~vol
    THEN Step([w EXCEPT !.frame.errors = Append(@, "Invalid volume"),
                        !.frame.opacityResult = 1],
              "UpdateOpacityTransferFunction")
  ELSE IF numberOfScalarComponents # 1
    THEN Step([w EXCEPT
                 !.frame.errors = Append(@,
                   "SinglePass volume mapper does not handle multi-component scalars"),
                 !.frame.opacityResult = 1],
              "UpdateOpacityTransferFunction")
  ELSE LET seeded ==
             [w EXCEPT
                !.volumeProperty.ScalarOpacity =
                  AddPoint(AddPoint(@, w.impl.ScalarsRange[1], "0.0"),
                           w.impl.ScalarsRange[2], "0.5"),
                !.stats.opacitySeedings = @ + 1,
                !.frame.seeded = @ \cup { "opacity" }]
       IN  Step([glActiveTexture(seeded, 0) EXCEPT
                   !.impl.OpacityTables = "loaded",
                   !.frame.opacityUpdate =
                     <<level, w.impl.BlendMode, w.impl.ScalarsRange>>,
                   !.frame.opacityResult = 0],
                "UpdateOpacityTransferFunction")

\* Returns 0 or 1 (fail) in frame.opacityResult.
UpdateOpacityTransferFunction(w, vol, numberOfScalarComponents, level) ==
  IF ~vol
    THEN Step([w EXCEPT !.frame.errors = Append(@, "Invalid volume"),
                        !.frame.opacityResult = 1],
              "UpdateOpacityTransferFunction")
  ELSE IF numberOfScalarComponents # 1
    THEN Step([w EXCEPT
                 !.frame.errors = Append(@,
                   "SinglePass volume mapper does not handle multi-component scalars"),
                 !.frame.opacityResult = 1],
              "UpdateOpacityTransferFunction")
  ELSE LET seeded ==
             IF Len(w.volumeProperty.ScalarOpacity) < 1
               THEN [w EXCEPT
                       !.volumeProperty.ScalarOpacity =
                         AddPoint(AddPoint(@, w.impl.ScalarsRange[1], "0.0"),
                                  w.impl.ScalarsRange[2], "0.5"),
                       !.stats.opacitySeedings = @ + 1,
                       !.frame.seeded = @ \cup { "opacity" }]
               ELSE w
       IN  Step([glActiveTexture(seeded, 0) EXCEPT
                   !.impl.OpacityTables = "loaded",
                   !.frame.opacityUpdate =
                     <<level, w.impl.BlendMode, w.impl.ScalarsRange>>,
                   !.frame.opacityResult = 0],
                "UpdateOpacityTransferFunction")

\* UpdateNoiseTexture without the test for a cached grid.
UpdateNoiseTextureEveryCall(w) ==
  LET name == GeneratedTexture(w)
      gen  == glGenTextures(glActiveTexture(w, 3), "GL_TEXTURE_2D")
      size == IF 128 > w.gl.maxTextureSize
                THEN w.gl.maxTextureSize ELSE 128
      made == [gen EXCEPT !.impl.NoiseTextureId = name,
                          !.gl.bound2D = name,
                          !.impl.NoiseTextureData = "grid",
                          !.impl.NoiseTextureSize = size,
                          !.frame.noiseGenerated = @ + 1]
  IN  Step(glActiveTexture(glTexImage(made, name, <<size, size>>), 0),
           "UpdateNoiseTexture")

\* if (NoiseTextureData == 0) { generate the grid and upload it }
UpdateNoiseTexture(w) ==
  IF w.impl.NoiseTextureData = "null"
    THEN LET name == GeneratedTexture(w)
             gen  == glGenTextures(glActiveTexture(w, 3), "GL_TEXTURE_2D")
             size == IF 128 > w.gl.maxTextureSize
                       THEN w.gl.maxTextureSize ELSE 128
             made == [gen EXCEPT !.impl.NoiseTextureId = name,
                                 !.gl.bound2D = name,
                                 !.impl.NoiseTextureData = "grid",
                                 !.impl.NoiseTextureSize = size,
                                 !.frame.noiseGenerated = @ + 1]
         IN  Step(glActiveTexture(glTexImage(made, name, <<size, size>>), 0),
                  "UpdateNoiseTexture")
    ELSE Step(w, "UpdateNoiseTexture")

(* ------------------------------------------------------------------ *)
(* GPURender and Render                                                *)
(* ------------------------------------------------------------------ *)
\* The uniforms GPURender assigns before it binds the textures.
ConstantUniforms ==
  << "step_size", "sample_distance", "cell_scale", "scale", "volume",
     "color_transfer_func", "opacity_transfer_func", "noise",
     "enable_shading", "ambient", "diffuse", "specular", "shininess" >>

\* The uniforms GPURender assigns after it binds the textures.
SceneUniforms ==
  << "projection_matrix", "modelview_matrix", "scene_matrix", "camera_pos",
     "light_pos", "vol_extents_min", "vol_extents_max",
     "texture_extents_min", "texture_extents_max" >>

\* StepSize[i] = 1.0 / (Bounds[2i+1] - Bounds[2i]) and CellScale[i] =
\* (Bounds[2i+1] - Bounds[2i]) * 0.5 of the mapper's own Bounds b, which are
\* in half units: the quotients 2 / (b1 - b0) and (b1 - b0) / 4.
StepSizeOf(b) == [i \in 1..3 |-> <<2, b[2 * i] - b[2 * i - 1]>>]

CellScaleOf(b) == [i \in 1..3 |-> <<b[2 * i] - b[2 * i - 1], 4>>]

\* LoadIfDirty uploading the volume before it computes the bounds.
LoadIfDirtyUploadFirst(w) ==
  LET checked == [w EXCEPT !.frame.dirty = IsDataDirty(w),
                           !.frame.dirtyChecked = TRUE,
                           !.frame.mtimeAtCheck = w.input.mtime,
                           !.frame.buildTimeAtCheck = w.impl.VolumeBuildTime]
  IN  IF IsDataDirty(w)
        THEN UpdateVolumeGeometry(ComputeBounds(LoadVolume(checked)))
        ELSE checked

\* if (IsDataDirty(input)) { ComputeBounds; LoadVolume; UpdateVolumeGeometry }
LoadIfDirty(w) ==
  LET checked == [w EXCEPT !.frame.dirty = IsDataDirty(w),
                           !.frame.dirtyChecked = TRUE,
                           !.frame.mtimeAtCheck = w.input.mtime,
                           !.frame.buildTimeAtCheck = w.impl.VolumeBuildTime]
  IN  IF IsDataDirty(w)
        THEN UpdateVolumeGeometry(LoadVolume(ComputeBounds(checked)))
        ELSE checked

\* The transfer functions updated only in a render that uploaded the volume.
UpdateTransferFunctionsIfDirty(w, vol) ==
  IF w.frame.dirty
    THEN UpdateColorTransferFunction(
           UpdateOpacityTransferFunction(w, vol, w.input.data.comps, 0),
           w.input.data.comps)
    ELSE w

\* Update the transfer functions; the return values are not looked at.
UpdateTransferFunctions(w, vol) ==
  UpdateColorTransferFunction(
    UpdateOpacityTransferFunction(w, vol, w.input.data.comps, 0),
    w.input.data.comps)

\* From "Update sampling distance" to the last glUniform3fv.
MarshalUniforms(w, mapperBounds) ==
  LET sized  == [w EXCEPT !.impl.StepSize = StepSizeOf(mapperBounds),
                          !.impl.CellScale = CellScaleOf(mapperBounds)]
      first  == Step(glUniforms(sized, ConstantUniforms), "MarshalUniforms")
      volume == [glActiveTexture(first, 0) EXCEPT
                   !.gl.bound3D = first.impl.VolumeTextureId]
      noise  == [glActiveTexture(volume, 3) EXCEPT
                   !.gl.bound2D = volume.impl.NoiseTextureId]
      scene  == glUniforms(Step(noise, "BindTextures"), SceneUniforms)
  IN  [scene EXCEPT
         !.frame.volExtents =
           << <<mapperBounds[1], mapperBounds[3], mapperBounds[5]>>,
              <<mapperBounds[2], mapperBounds[4], mapperBounds[6]>> >>]

\* Draw skipped when a transfer function update returned 1.
DrawUnlessTableFailed(w) ==
  IF w.frame.opacityResult = 1 \/ w.frame.colorResult = 1
    THEN w
    ELSE Step(glDrawElements([w EXCEPT !.gl.boundVAO = w.impl.CubeVAOId],
                             36),
              "Draw")

\* glBindVertexArray(CubeVAOId); glDrawElements(GL_TRIANGLES, 36, ...)
Draw(w) ==
  Step(glDrawElements([w EXCEPT !.gl.boundVAO = w.impl.CubeVAOId], 36),
       "Draw")

\* "Undo binds and state changes"
RestoreState(w) ==
  LET unbound == [w EXCEPT !.gl.program = "none", !.gl.boundVAO = 0]
      blend   == glActiveTexture(glDisable(unbound, "GL_BLEND"), 0)
  IN  Step(glDisable(glDisable(glDisable(blend, "GL_TEXTURE_3D"),
                               "GL_TEXTURE_2D"), "GL_TEXTURE_1D"),
           "Restore")

GPURender(w, ren, vol, mapperBounds) ==
  LET enabled == glEnable(glEnable(glEnable(w, "GL_TEXTURE_1D"),
                                   "GL_TEXTURE_2D"), "GL_TEXTURE_3D")
      ready   == IF ~IsInitialized(enabled) THEN Initialize(enabled)
                                            ELSE enabled
      ranged  == [ready EXCEPT
                    !.impl.CellFlag = GetScalars(ready.input).cellFlag,
                    !.impl.ScalarsRange = ready.input.data.range]
      loaded  == LoadIfDirty(ranged)
      used    == [loaded EXCEPT !.gl.program = "raycaster"]
      tables  == UpdateTransferFunctions(used, vol)
      noise   == UpdateNoiseTexture(tables)
      blended == glEnable(glEnable(noise, "GL_DEPTH_TEST"), "GL_BLEND")
  IN  RestoreState(Draw(MarshalUniforms(blended, mapperBounds)))

\* InvokeEvent that invokes nothing once an event of the call was invoked.
EventUnlessStarted(w, name) ==
  IF w.frame.events # <<>> THEN w
  ELSE [w EXCEPT
          !.frame.events =
            Append(@, [name |-> name,
                       evaluated |-> Len(w.frame.evaluated),
                       steps |-> Len(w.frame.steps)])]

\* this->InvokeEvent(name, 0): the event, with how many validation checks
\* and how many steps of GPURender the call had done when it was invoked.
Event(w, name) ==
  [w EXCEPT
     !.frame.events =
       Append(@, [name |-> name,
                  evaluated |-> Len(w.frame.evaluated),
                  steps |-> Len(w.frame.steps)])]

\* Render with GPURender called whatever ValidateRender returned.
RenderCallUnguarded(w, ren, vol, blendMode, independent, mapperBounds, outOfDate) ==
  LET called   == [w EXCEPT !.frame.called = TRUE,
                            !.frame.ren = ren,
                            !.frame.vol = vol,
                            !.frame.blendMode = blendMode,
                            !.frame.independent = independent]
      started  == Event(called, "VolumeMapperRenderStartEvent")
      checked  == ValidateRender(started, ren, vol, blendMode, independent,
                                 outOfDate)
      rendered == GPURender(checked, ren, vol, mapperBounds)
      timed    == [rendered EXCEPT
                     !.impl.ElapsedDrawTime = "measured",
                     !.stats.renders = @ + 1,
                     !.stats.validated =
                       IF checked.frame.validated THEN @ + 1 ELSE @]
  IN  Event(timed, "VolumeMapperRenderEndEvent")

\* Render(ren, vol) on the world w.
RenderCall(w, ren, vol, blendMode, independent, mapperBounds, outOfDate) ==
  LET called   == [w EXCEPT !.frame.called = TRUE,
                            !.frame.ren = ren,
                            !.frame.vol = vol,
                            !.frame.blendMode = blendMode,
                            !.frame.independent = independent]
      started  == Event(called, "VolumeMapperRenderStartEvent")
      checked  == ValidateRender(started, ren, vol, blendMode, independent,
                                 outOfDate)
      rendered == IF checked.frame.validated
                    THEN GPURender(checked, ren, vol, mapperBounds)
                    ELSE checked
      timed    == [rendered EXCEPT
                     !.impl.ElapsedDrawTime = "measured",
                     !.stats.renders = @ + 1,
                     !.stats.validated =
                       IF checked.frame.validated THEN @ + 1 ELSE @]
  IN  Event(timed, "VolumeMapperRenderEndEvent")

(* ------------------------------------------------------------------ *)
(* Actions                                                             *)
(* ------------------------------------------------------------------ *)
\* vtkMath::UninitializeBounds, in half units.
UninitializedBounds == <<2, -2, 2, -2, 2, -2>>

\* The instance after its constructor, with no input connected yet.
Init ==
  /\ impl = ImplInit
  /\ gl = GLContext
  /\ clock = 1
  /\ input = NoInput
  /\ Bounds = UninitializedBounds
  /\ volumeProperty = EmptyProperty
  /\ frame = FrameInit
  /\ stats = StatsInit

\* mapper->Render(ren, vol).  ren and vol are FALSE for a null pointer;
\* blendMode and independent are the mapper's blend mode and the volume
\* property's independent-components flag as the caller has set them.
RenderWith(ren, vol, blendMode, independent, outOfDate) ==
  LET w == RenderCall(World, ren, vol, blendMode, independent, Bounds,
                      outOfDate)
  IN  /\ stats.renders < MaxRenders
      /\ w.clock <= MaxTime
      /\ impl' = w.impl
      /\ gl' = w.gl
      /\ clock' = w.clock
      /\ input' = w.input
      /\ volumeProperty' = w.volumeProperty
      /\ frame' = w.frame
      /\ stats' = w.stats
      /\ UNCHANGED Bounds

Render ==
  \E a \in RenderArguments, outOfDate \in BOOLEAN :
    RenderWith(a[1], a[2], a[3], a[4], outOfDate)

\* The caller connects another image data, or none: an object built earlier,
\* with the modification time it got then.
SetInputData ==
  /\ \/ input' = NoInput
     \/ \E ds \in DataSets, t \in 1..clock : input' = Input(ds, t)
  /\ frame' = FrameInit
  /\ UNCHANGED <<impl, gl, clock, Bounds, volumeProperty, stats>>

\* The caller changes the connected image data: Modified() stamps it.
ModifyInput ==
  /\ input.present
  /\ clock < MaxTime
  /\ \E ds \in DataSets : input' = Input(ds, clock + 1)
  /\ clock' = clock + 1
  /\ frame' = FrameInit
  /\ UNCHANGED <<impl, gl, Bounds, volumeProperty, stats>>

Next ==
  \/ Render
  \/ SetInputData
  \/ ModifyInput

Spec == Init /\ [][Next]_vars

\* ~vtkSinglePassVolumeMapper deletes Implementation, whose destructor
\* passes RGBTable, OpacityTables and NoiseTextureData to delete, in this
\* order, and sets each to 0.
DestroyInternal(w) ==
  [w EXCEPT !.frame.deleted = <<w.impl.RGBTable, w.impl.OpacityTables,
                                w.impl.NoiseTextureData>>,
            !.impl.RGBTable = "null",
            !.impl.OpacityTables = "null",
            !.impl.NoiseTextureData = "null"]

\* The mapper is destroyed; no operation follows.
Destroy ==
  /\ frame.deleted = <<>>
  /\ LET w == DestroyInternal(World)
     IN  /\ impl' = w.impl
         /\ frame' = w.frame
  /\ UNCHANGED <<gl, clock, input, Bounds, volumeProperty, stats>>

\* The operations of a mapper that has not been destroyed.
Alive ==
  /\ frame.deleted = <<>>
  /\ Next

LifetimeNext ==
  \/ Alive
  \/ Destroy

\* A mapper from its construction to its destruction.
LifetimeSpec == Init /\ [][LifetimeNext]_vars

\* Validation alone: the instance after its constructor with any image data
\* connected, rendered once with any arguments.
InitAnyInput ==
  /\ impl = ImplInit
  /\ gl = GLContext
  /\ clock = 1
  /\ input \in { NoInput } \cup { Input(ds, 1) : ds \in AllDataSets }
  /\ Bounds = UninitializedBounds
  /\ volumeProperty = EmptyProperty
  /\ frame = FrameInit
  /\ stats = StatsInit

FirstRender ==
  /\ stats.renders = 0
  /\ \E ren \in BOOLEAN, vol \in BOOLEAN, blendMode \in BlendModes,
        independent \in BOOLEAN, outOfDate \in BOOLEAN :
       RenderWith(ren, vol, blendMode, independent, outOfDate)

ValidateSpec == InitAnyInput /\ [][FirstRender]_vars

\* The transfer functions: the instance after its constructor with an image
\* data connected and transfer functions of up to MaxPoints control points
\* set by the caller, who goes on adding points between renders and removes
\* none.
CallerRGBPoint == [x |-> 0, value |-> <<1, 0, 0>>]

CallerOpacityPoint == [x |-> 0, value |-> "1.0"]

CallerFunctions(point) == { [i \in 1..n |-> point] : n \in 0..MaxPoints }

TableInit ==
  /\ impl = ImplInit
  /\ gl = GLContext
  /\ clock = 1
  /\ input \in { Input(ds, 1) : ds \in DataSets }
  /\ Bounds = UninitializedBounds
  /\ volumeProperty \in
       { [RGBTransferFunction |-> c, ScalarOpacity |-> o] :
           c \in CallerFunctions(CallerRGBPoint),
           o \in CallerFunctions(CallerOpacityPoint) }
  /\ frame = FrameInit
  /\ stats = StatsInit

\* The caller adds a control point to the color transfer function.
CallerAddRGBPoint ==
  /\ Len(volumeProperty.RGBTransferFunction) < MaxPoints + 2
  /\ volumeProperty' =
       [volumeProperty EXCEPT
          !.RGBTransferFunction = Append(@, CallerRGBPoint)]
  /\ frame' = FrameInit
  /\ UNCHANGED <<impl, gl, clock, input, Bounds, stats>>

\* The caller adds a control point to the scalar opacity function.
CallerAddPoint ==
  /\ Len(volumeProperty.ScalarOpacity) < MaxPoints + 2
  /\ volumeProperty' =
       [volumeProperty EXCEPT !.ScalarOpacity = Append(@, CallerOpacityPoint)]
  /\ frame' = FrameInit
  /\ UNCHANGED <<impl, gl, clock, input, Bounds, stats>>

TableNext ==
  \/ Render
  \/ CallerAddRGBPoint
  \/ CallerAddPoint

TableSpec == TableInit /\ [][TableNext]_vars

\* The bounds: the instance after its constructor with an image data of any
\* geometry connected, point or cell scalars, rendered once.  Extents are
\* well ordered and include negative indices, a non-zero lower index and a
\* single sample; spacings have either sign.
AxisExtents == { <<0, 9>>, <<-1, 2>>, <<-3, -1>>, <<2, 2>> }

AxisSpacings == { -2, 1 }

AxisOrigins == { 0, 1 }

Geometries ==
  { [extent |-> ex \o ey \o ez, spacing |-> <<sx, sy, sz>>,
     origin |-> <<ox, oy, oz>>] :
      ex \in AxisExtents, ey \in AxisExtents, ez \in AxisExtents,
      sx \in AxisSpacings, sy \in AxisSpacings, sz \in AxisSpacings,
      ox \in AxisOrigins, oy \in AxisOrigins, oz \in AxisOrigins }

BoundsInit ==
  /\ impl = ImplInit
  /\ gl = GLContext
  /\ clock = 1
  /\ input \in { Input(DataSet(TRUE, a, "VTK_FLOAT", 1, <<0, 1>>, g), 1) :
                   a \in { 0, 1 }, g \in Geometries }
  /\ Bounds = UninitializedBounds
  /\ volumeProperty = EmptyProperty
  /\ frame = FrameInit
  /\ stats = StatsInit

BoundsRender ==
  /\ stats.renders = 0
  /\ RenderWith(TRUE, TRUE, "COMPOSITE_BLEND", FALSE, FALSE)

BoundsSpec == BoundsInit /\ [][BoundsRender]_vars

\* The encoding: the instance after its constructor with point scalars of
\* any type, one or four components and any value range connected, rendered
\* once.  The ranges include one that starts at 0, ones that do not, a
\* negative one and that of a constant field.
ScalarRanges ==
  { <<0, 1>>, <<0, 255>>, <<1, 3>>, <<-2, 2>>, <<-3, -1>>, <<2, 2>> }

EncodeInit ==
  /\ impl = ImplInit
  /\ gl = GLContext
  /\ clock = 1
  /\ input \in { Input(DataSet(TRUE, 0, t, c, r, DefaultGeometry), 1) :
                   t \in ScalarTypes, c \in { 1, 4 }, r \in ScalarRanges }
  /\ Bounds = UninitializedBounds
  /\ volumeProperty = EmptyProperty
  /\ frame = FrameInit
  /\ stats = StatsInit

EncodeRender ==
  /\ stats.renders = 0
  /\ \E blendMode \in SupportedBlendModes :
       RenderWith(TRUE, TRUE, blendMode, FALSE, FALSE)

EncodeSpec == EncodeInit /\ [][EncodeRender]_vars

(* ------------------------------------------------------------------ *)
(* Properties                                                          *)
(* ------------------------------------------------------------------ *)
\* The operation called name was a step of the render recorded in f.
Did(f, name) == \E i \in DOMAIN f.steps : f.steps[i] = name

\* The step is a Render call.
IsRenderStep == stats'.renders = stats.renders + 1

\* C1: over any sequence of Render calls Initialize runs at most once: it
\* runs in the first render that passes validation and in no other, it
\* sets Initialized, and Initialized never goes back to false.
C1_InitializeOnce ==
  /\ [](/\ stats.initializeCalls <= 1
        /\ impl.Initialized <=> (stats.validated >= 1)
        /\ impl.Initialized <=> (stats.initializeCalls = 1)
        /\ frame.called =>
             (Did(frame, "Initialize") <=>
                (frame.validated /\ stats.validated = 1)))
  /\ [][impl.Initialized => impl'.Initialized]_vars

\* A second validated render has returned: it skipped Initialize.
C1_Witness ==
  /\ frame.called /\ frame.validated
  /\ stats.validated = 2
  /\ stats.initializeCalls = 1
  /\ ~Did(frame, "Initialize")

\* C2: a validated render uploads the volume (ComputeBounds, LoadVolume,
\* UpdateVolumeGeometry together) exactly when the input's modification time
\* exceeds VolumeBuildTime at the check, a render that fails validation
\* uploads nothing, an upload leaves VolumeBuildTime above the input's
\* modification time, VolumeBuildTime never decreases, and a render that
\* finds the input not modified since the last upload uploads nothing.
C2_UploadIffDirty ==
  /\ [](frame.called =>
          /\ frame.validated => frame.dirtyChecked
          /\ Did(frame, "LoadVolume") <=>
               (/\ frame.validated
                /\ frame.mtimeAtCheck > frame.buildTimeAtCheck)
          /\ Did(frame, "ComputeBounds") <=> Did(frame, "LoadVolume")
          /\ Did(frame, "UpdateVolumeGeometry") <=> Did(frame, "LoadVolume")
          /\ Did(frame, "LoadVolume") =>
               /\ impl.VolumeBuildTime > input.mtime
               /\ impl.VolumeBuildTime > frame.buildTimeAtCheck)
  /\ [][/\ impl'.VolumeBuildTime >= impl.VolumeBuildTime
        /\ (/\ IsRenderStep
            /\ input' = input
            /\ input.mtime <= impl.VolumeBuildTime)
           => /\ ~Did(frame', "LoadVolume")
              /\ ~Did(frame', "ComputeBounds")
              /\ ~Did(frame', "UpdateVolumeGeometry")
              /\ impl'.VolumeBuildTime = impl.VolumeBuildTime]_vars

\* A validated render after an upload found the input unmodified and
\* uploaded nothing.
C2_Witness ==
  /\ frame.called /\ frame.validated
  /\ stats.uploads = 1
  /\ stats.validated = 2
  /\ ~Did(frame, "LoadVolume")
  /\ frame.mtimeAtCheck <= frame.buildTimeAtCheck

\* C3: the instance generates at most one volume texture name, however often
\* the volume is uploaded.
C3_OneVolumeTexture == Cardinality(stats.volumeTextures) <= 1

\* C4: a Render call whose validation fails runs no step of GPURender and
\* leaves alone Initialized, VolumeBuildTime, the texture and buffer names,
\* the cached bounds, extents and texture size, the scale, the noise grid
\* and the whole GL context; it enables or disables nothing and draws
\* nothing.
C4_FailedValidationNoGPUWork ==
  [][(IsRenderStep /\ ~frame'.validated) =>
       /\ frame'.steps = <<>>
       /\ frame'.glTouched = {}
       /\ frame'.draws = <<>>
       /\ frame'.uniforms = {}
       /\ gl' = gl
       /\ stats'.initializeCalls = stats.initializeCalls
       /\ stats'.uploads = stats.uploads
       /\ impl'.Initialized = impl.Initialized
       /\ impl'.VolumeBuildTime = impl.VolumeBuildTime
       /\ impl'.VolumeTextureId = impl.VolumeTextureId
       /\ impl'.NoiseTextureId = impl.NoiseTextureId
       /\ impl'.CubeVBOId = impl.CubeVBOId
       /\ impl'.CubeVAOId = impl.CubeVAOId
       /\ impl'.CubeIndicesId = impl.CubeIndicesId
       /\ impl'.Bounds = impl.Bounds
       /\ impl'.Extents = impl.Extents
       /\ impl'.TextureSize = impl.TextureSize
       /\ impl'.Scale = impl.Scale
       /\ impl'.NoiseTextureData = impl.NoiseTextureData
       /\ impl'.NoiseTextureSize = impl.NoiseTextureSize
       /\ impl'.RGBTable = impl.RGBTable
       /\ impl'.OpacityTables = impl.OpacityTables]_vars

\* A render failed validation on an instance that had rendered before, so
\* that there was GPU state to leave alone.
C4_Witness ==
  /\ frame.called /\ ~frame.validated
  /\ impl.Initialized
  /\ impl.VolumeTextureId # 0
  /\ stats.validated = 1
  /\ stats.renders = 2

\* C5: every Render call that passes validation issues exactly one draw call
\* of 36 indices and every one that fails issues none, so the draw calls
\* issued so far are as many as the renders that passed validation.
C5_OneDrawPerValidatedRender ==
  /\ Len(gl.draws) = stats.validated
  /\ \A i \in DOMAIN gl.draws : gl.draws[i] = 36
  /\ frame.called =>
       frame.draws = IF frame.validated THEN <<36>> ELSE <<>>

\* Two renders, one validated and one not: one draw call.
C5_Witness ==
  /\ frame.called
  /\ stats.renders = 2
  /\ stats.validated = 1
  /\ gl.draws = <<36>>

\* The scalar types the specification calls unsupported: the
\* platform-ambiguous char, bit, the 64-bit integers, string and id type.
UnsupportedScalarTypes ==
  { "VTK_CHAR", "VTK_BIT", "VTK___INT64", "VTK_LONG_LONG",
    "VTK_UNSIGNED___INT64", "VTK_UNSIGNED_LONG_LONG", "VTK_STRING",
    "VTK_ID_TYPE" }

\* C6: ValidateRender rejects every unsupported scalar type, so LoadVolume
\* never chooses a texture format for one-component scalars of a type for
\* which its switch assigns none.
C6_UnsupportedTypesRejected ==
  /\ (frame.called /\ frame.validated) =>
       input.data.dataType \notin UnsupportedScalarTypes
  /\ \A i \in DOMAIN frame.encoded :
       frame.encoded[i].format.internalFormat # "0"

\* C7: ValidateRender fails whenever the renderer is null, the volume is
\* null, there is no input, no scalar array is found on the input, or the
\* scalars found are field data (association 2).
C7_PresenceChecksReject ==
  (/\ frame.called
   /\ \/ ~frame.ren
      \/ ~frame.vol
      \/ ~input.present
      \/ ~input.data.hasScalars
      \/ input.data.association = 2)
  => ~frame.validated

\* Everything is present but the scalars are field data: rejected.
C7_Witness ==
  /\ frame.called /\ frame.ren /\ frame.vol
  /\ input.present /\ input.data.hasScalars
  /\ input.data.association = 2
  /\ input.data.dataType = "VTK_FLOAT" /\ input.data.comps = 1
  /\ frame.blendMode = "COMPOSITE_BLEND"
  /\ ~frame.validated

\* The presence checks and the scalar type check of ValidateRender pass.
PresenceAndTypeChecksPass ==
  /\ frame.called /\ frame.ren /\ frame.vol
  /\ input.present /\ input.data.hasScalars
  /\ input.data.association # 2
  /\ input.data.dataType \notin { "VTK_CHAR", "VTK_BIT", "VTK_ID_TYPE",
                                  "VTK_STRING" }

\* C8: when the presence and scalar type checks pass, ValidateRender
\* succeeds exactly when the blend mode is one of the four supported ones,
\* the component count is 1 or is 4 with non-independent components,
\* four-component data is unsigned char, and additive blending comes with
\* exactly one component.
C8_LayoutChecks ==
  PresenceAndTypeChecksPass =>
    (frame.validated <=>
       /\ frame.blendMode \in { "COMPOSITE_BLEND", "MAXIMUM_INTENSITY_BLEND",
                                "MINIMUM_INTENSITY_BLEND", "ADDITIVE_BLEND" }
       /\ \/ input.data.comps = 1
          \/ input.data.comps = 4 /\ ~frame.independent
       /\ input.data.comps = 4 => input.data.dataType = "VTK_UNSIGNED_CHAR"
       /\ frame.blendMode = "ADDITIVE_BLEND" => input.data.comps = 1)

\* Four non-independent float components are rejected although blend mode
\* and component count are fine.
C8_Witness ==
  /\ PresenceAndTypeChecksPass
  /\ input.data.comps = 4 /\ ~frame.independent
  /\ input.data.dataType = "VTK_FLOAT"
  /\ frame.blendMode = "MAXIMUM_INTENSITY_BLEND"
  /\ ~frame.validated

\* The checks of the validation in their fixed order.
CheckOrder ==
  << "renderer", "volume", "input", "scalars", "scalar type", "blend mode",
     "component count", "four component type", "additive" >>

\* The arguments of the recorded call fail the check called name.
FailsCheck(name) ==
  CASE name = "renderer" -> ~frame.ren
    [] name = "volume" -> ~frame.vol
    [] name = "input" -> ~input.present
    [] name = "scalars" ->
         ~input.data.hasScalars \/ input.data.association = 2
    [] name = "scalar type" ->
         input.data.dataType \in { "VTK_CHAR", "VTK_BIT", "VTK_ID_TYPE",
                                   "VTK_STRING" }
    [] name = "blend mode" ->
         frame.blendMode \notin { "COMPOSITE_BLEND",
                                  "MAXIMUM_INTENSITY_BLEND",
                                  "MINIMUM_INTENSITY_BLEND", "ADDITIVE_BLEND" }
    [] name = "component count" ->
         ~(\/ input.data.comps = 1
           \/ input.data.comps = 4 /\ ~frame.independent)
    [] name = "four component type" ->
         input.data.comps = 4 /\ input.data.dataType # "VTK_UNSIGNED_CHAR"
    [] name = "additive" ->
         input.data.comps # 1 /\ frame.blendMode = "ADDITIVE_BLEND"

\* The diagnostics that belong to the check called name.
DiagnosticsOf(name) ==
  CASE name = "renderer" -> { "Renderer cannot be null." }
    [] name = "volume" -> { "Volume cannot be null." }
    [] name = "input" -> { "Input is NULL but is required" }
    [] name = "scalars" ->
         { "No scalars found on input.",
           "Only point or cell scalar support - found field scalars instead." }
    [] name = "scalar type" ->
         { "scalar type is not supported by this mapper." }
    [] name = "blend mode" -> { "Selected blend mode not supported." }
    [] name = "component count" ->
         { "Only one component scalars, or four component with non-independent components, are supported by this mapper." }
    [] name = "four component type" ->
         { "Only unsigned char is supported for 4-component scalars!" }
    [] name = "additive" ->
         { "Additive mode only works with 1-component scalars!" }

\* The positions in CheckOrder of the checks the recorded call fails.
FailingChecks == { k \in DOMAIN CheckOrder : FailsCheck(CheckOrder[k]) }

\* C9: validation short-circuits.  When some check fails, the checks are
\* evaluated in the fixed order up to the first failing one and no further,
\* exactly one diagnostic is reported, it is that check's, and the
\* validation fails; when none fails, all checks are evaluated, nothing is
\* reported and the validation succeeds.
C9_ShortCircuit ==
  frame.called =>
    IF FailingChecks = {}
      THEN /\ frame.validated
           /\ frame.diagnostics = <<>>
           /\ frame.evaluated = CheckOrder
      ELSE LET first == CHOOSE k \in FailingChecks :
                          \A j \in FailingChecks : k <= j
           IN  /\ ~frame.validated
               /\ frame.evaluated = SubSeq(CheckOrder, 1, first)
               /\ Len(frame.diagnostics) = 1
               /\ frame.diagnostics[1] \in DiagnosticsOf(CheckOrder[first])

\* Renderer and volume are both null and the blend mode is unsupported:
\* one diagnostic, the renderer's, and no check after the first evaluated.
C9_Witness ==
  /\ frame.called /\ ~frame.ren /\ ~frame.vol
  /\ frame.blendMode = "OTHER_BLEND"
  /\ ~frame.validated
  /\ frame.diagnostics = << "Renderer cannot be null." >>
  /\ frame.evaluated = << "renderer" >>

\* C10: when a transfer function update fails because the scalars have more
\* than one component, the render is aborted: it assigns no uniform and
\* issues no draw call.
C10_TableFailureAbortsRender ==
  (/\ frame.called
   /\ frame.opacityResult = 1 \/ frame.colorResult = 1)
  => /\ frame.uniforms = {}
     /\ frame.draws = <<>>

\* The two points the refresh adds to an empty color transfer function and
\* to an empty opacity function for the scalar range r.
DefaultRGBPoints(r) ==
  << [x |-> r[1], value |-> <<0, 0, 0>>], [x |-> r[2], value |-> <<1, 1, 1>>] >>

DefaultOpacityPoints(r) ==
  << [x |-> r[1], value |-> "0.0"], [x |-> r[2], value |-> "0.5"] >>

\* C11 as stated: a refresh that finds fewer than two control points in the
\* color or the opacity transfer function appends the two default points
\* (range minimum to black or opacity 0, range maximum to white or opacity
\* 0.5) before it samples the table.
C11_SeededBelowTwoPoints ==
  [][IsRenderStep =>
       /\ (/\ frame'.colorResult = 0
           /\ Len(volumeProperty.RGBTransferFunction) < 2)
          => volumeProperty'.RGBTransferFunction =
               volumeProperty.RGBTransferFunction
                 \o DefaultRGBPoints(input'.data.range)
       /\ (/\ frame'.opacityResult = 0
           /\ Len(volumeProperty.ScalarOpacity) < 2)
          => volumeProperty'.ScalarOpacity =
               volumeProperty.ScalarOpacity
                 \o DefaultOpacityPoints(input'.data.range)]_vars

\* C11 amended: a refresh appends the two default points (range minimum to
\* black or opacity 0, range maximum to white or opacity 0.5) exactly when it
\* finds the transfer function empty; a function of one or more control
\* points is sampled as it is.
C11_SeededWhenEmpty ==
  [][IsRenderStep =>
       /\ frame'.colorResult = 0
          => volumeProperty'.RGBTransferFunction =
               IF volumeProperty.RGBTransferFunction = <<>>
                 THEN DefaultRGBPoints(input'.data.range)
                 ELSE volumeProperty.RGBTransferFunction
       /\ frame'.opacityResult = 0
          => volumeProperty'.ScalarOpacity =
               IF volumeProperty.ScalarOpacity = <<>>
                 THEN DefaultOpacityPoints(input'.data.range)
                 ELSE volumeProperty.ScalarOpacity
       /\ ("color" \in frame'.seeded) <=>
            (frame'.colorResult = 0
               /\ volumeProperty.RGBTransferFunction = <<>>)
       /\ ("opacity" \in frame'.seeded) <=>
            (frame'.opacityResult = 0 /\ volumeProperty.ScalarOpacity = <<>>)]_vars

\* A refresh found the opacity function empty and seeded it, and found one
\* control point in the color function and added none.
C11_Witness ==
  /\ frame.called /\ frame.validated
  /\ frame.colorResult = 0 /\ frame.opacityResult = 0
  /\ frame.seeded = { "opacity" }
  /\ volumeProperty.RGBTransferFunction = << CallerRGBPoint >>
  /\ volumeProperty.ScalarOpacity = DefaultOpacityPoints(input.data.range)

\* f is a prefix of g.
IsPrefix(f, g) == Len(f) <= Len(g) /\ SubSeq(g, 1, Len(f)) = f

\* C12: seeding is one-time.  While the caller removes no control point,
\* each transfer function gets default points in at most one render, a
\* render keeps every control point it finds, in place, and a render that
\* finds control points in a function leaves that function as it is.
C12_SeededOnce ==
  /\ [](/\ stats.colorSeedings <= 1
        /\ stats.opacitySeedings <= 1)
  /\ [][IsRenderStep =>
          /\ IsPrefix(volumeProperty.RGBTransferFunction,
                      volumeProperty'.RGBTransferFunction)
          /\ IsPrefix(volumeProperty.ScalarOpacity,
                      volumeProperty'.ScalarOpacity)
          /\ volumeProperty.RGBTransferFunction # <<>>
             => /\ volumeProperty'.RGBTransferFunction =
                     volumeProperty.RGBTransferFunction
                /\ stats'.colorSeedings = stats.colorSeedings
          /\ volumeProperty.ScalarOpacity # <<>>
             => /\ volumeProperty'.ScalarOpacity =
                     volumeProperty.ScalarOpacity
                /\ stats'.opacitySeedings = stats.opacitySeedings]_vars

\* A second render refreshed both tables of functions seeded by the first
\* and added nothing.
C12_Witness ==
  /\ frame.called /\ frame.validated
  /\ stats.validated = 2
  /\ frame.colorResult = 0 /\ frame.opacityResult = 0
  /\ frame.seeded = {}
  /\ stats.colorSeedings = 1 /\ stats.opacitySeedings = 1
  /\ volumeProperty.RGBTransferFunction = DefaultRGBPoints(input.data.range)

\* C13: every render of one-component scalars that passes validation
\* updates the opacity table of level 0 and the color table, both with the
\* scalar range read from the input in that render, whether or not the
\* render found the volume dirty.
C13_TablesRefreshedEveryRender ==
  (/\ frame.called /\ frame.validated
   /\ input.data.comps = 1)
  => /\ Did(frame, "UpdateOpacityTransferFunction")
     /\ Did(frame, "UpdateColorTransferFunction")
     /\ frame.opacityResult = 0
     /\ frame.colorResult = 0
     /\ impl.ScalarsRange = input.data.range
     /\ Len(frame.opacityUpdate) = 3
     /\ frame.opacityUpdate[1] = 0
     /\ frame.opacityUpdate[3] = input.data.range
     /\ frame.colorUpdate = << input.data.range >>

\* A second validated render found the volume up to date, uploaded nothing
\* and updated both tables.
C13_Witness ==
  /\ frame.called /\ frame.validated
  /\ input.data.comps = 1
  /\ stats.validated = 2
  /\ frame.dirtyChecked /\ ~frame.dirty
  /\ ~Did(frame, "LoadVolume")
  /\ Did(frame, "UpdateOpacityTransferFunction")
  /\ Did(frame, "UpdateColorTransferFunction")

\* The names of the 2D textures generated so far: the noise textures.
NoiseTextures ==
  { n \in DOMAIN gl.textures : gl.textures[n].target = "GL_TEXTURE_2D" }

\* C14: over any sequence of renders the instance generates and uploads the
\* noise grid at most once: UpdateNoiseTexture generates it in the first
\* render that passes validation, and once a grid is cached no step changes
\* NoiseTextureData, NoiseTextureSize or NoiseTextureId or generates another
\* noise texture.
C14_NoiseGeneratedOnce ==
  /\ [](/\ Cardinality(NoiseTextures) <= 1
        /\ (impl.NoiseTextureData # "null") <=> (stats.validated >= 1)
        /\ impl.NoiseTextureData # "null" =>
             NoiseTextures = { impl.NoiseTextureId }
        /\ frame.called =>
             /\ Did(frame, "UpdateNoiseTexture") <=> frame.validated
             /\ frame.noiseGenerated =
                  IF frame.validated /\ stats.validated = 1 THEN 1 ELSE 0)
  /\ [][impl.NoiseTextureData # "null" =>
          /\ impl'.NoiseTextureData = impl.NoiseTextureData
          /\ impl'.NoiseTextureSize = impl.NoiseTextureSize
          /\ impl'.NoiseTextureId = impl.NoiseTextureId
          /\ gl'.textures[impl.NoiseTextureId] =
               gl.textures[impl.NoiseTextureId]]_vars

\* A second validated render called UpdateNoiseTexture and found the grid
\* of the first.
C14_Witness ==
  /\ frame.called /\ frame.validated
  /\ stats.validated = 2
  /\ Did(frame, "UpdateNoiseTexture")
  /\ frame.noiseGenerated = 0
  /\ impl.NoiseTextureData = "grid"
  /\ Cardinality(NoiseTextures) = 1

\* origin + index * spacing on axis i of the input, in half units.
EdgeAt(i, index) ==
  2 * input.data.origin[i] + 2 * index * input.data.spacing[i]

Smaller(a, b) == IF a <= b THEN a ELSE b

Larger(a, b) == IF a <= b THEN b ELSE a

\* C15: for point scalars ComputeBounds stores on each axis the smaller of
\* origin + extent_min * spacing and origin + extent_max * spacing as the
\* minimum and the larger as the maximum, so minimum <= maximum, whatever
\* the sign of the spacing; for extent [0, 9] on every axis, spacing 1 and
\* origin 0 the bounds are [0, 9, 0, 9, 0, 9].
C15_PointBounds ==
  (/\ frame.called /\ Did(frame, "ComputeBounds")
   /\ impl.CellFlag = 0)
  => /\ \A i \in 1..3 :
          LET a == EdgeAt(i, input.data.extent[2 * i - 1])
              b == EdgeAt(i, input.data.extent[2 * i])
          IN  /\ impl.Bounds[2 * i - 1] = Smaller(a, b)
              /\ impl.Bounds[2 * i] = Larger(a, b)
              /\ impl.Bounds[2 * i - 1] <= impl.Bounds[2 * i]
     /\ (/\ input.data.extent = <<0, 9, 0, 9, 0, 9>>
         /\ input.data.spacing = <<1, 1, 1>>
         /\ input.data.origin = <<0, 0, 0>>)
        => impl.Bounds = <<0, 18, 0, 18, 0, 18>>

\* Point scalars with a negative spacing on the first axis, a lower index
\* below zero there and a single sample on the third axis: the bounds are
\* [-3, 3, 0, 9, 3, 3].
C15_Witness ==
  /\ frame.called /\ Did(frame, "ComputeBounds")
  /\ impl.CellFlag = 0
  /\ input.data.extent = <<-1, 2, 0, 9, 2, 2>>
  /\ input.data.spacing = <<-2, 1, 1>>
  /\ input.data.origin = <<1, 0, 1>>
  /\ impl.Bounds = <<-6, 6, 0, 18, 6, 6>>

\* The entries of the cached bounds that ComputeBounds fills from the lower
\* and from the upper edge of axis i.
LowerEdgeBound(i) ==
  impl.Bounds[2 * i - 1 + (IF input.data.spacing[i] < 0 THEN 1 ELSE 0)]

UpperEdgeBound(i) ==
  impl.Bounds[2 * i - (IF input.data.spacing[i] < 0 THEN 1 ELSE 0)]

\* C16: for cell scalars the extent rendered is the whole extent of the
\* input, so on every side of every axis ComputeBounds places the boundary
\* at origin + edge * spacing with no half-cell offset: the lower one at the
\* lower index, the upper one at the upper index or at the end of its cell.
C16_CellBoundsSnapToOuterEdge ==
  (/\ frame.called /\ Did(frame, "ComputeBounds")
   /\ impl.CellFlag = 1)
  => \A i \in 1..3 :
       /\ LowerEdgeBound(i) = EdgeAt(i, input.data.extent[2 * i - 1])
       /\ UpperEdgeBound(i) \in { EdgeAt(i, input.data.extent[2 * i]),
                                  EdgeAt(i, input.data.extent[2 * i] + 1) }

\* C17: for cell scalars the bounds ComputeBounds stores have minimum <=
\* maximum on every axis, for every well-ordered extent, negative indices
\* included, and every origin and spacing of either sign.
C17_CellBoundsOrdered ==
  (/\ frame.called /\ Did(frame, "ComputeBounds")
   /\ impl.CellFlag = 1)
  => \A i \in 1..3 : impl.Bounds[2 * i - 1] <= impl.Bounds[2 * i]

\* A limit given by its two base-65536 digits is above zero.
DigitsPositive(v) == v[1] > 0 \/ (v[1] = 0 /\ v[2] > 0)

\* The quotient <<name of a limit, denominator>> is above zero.
ScalePositive(s) == DigitsPositive(LimitValue(s[1])) /\ s[2] > 0

\* C18: whenever a validated render uploads scalars whose range has maximum
\* > minimum, whatever their type and component count, the scale LoadVolume
\* stores in Scale is strictly positive.
C18_ScalePositive ==
  (/\ frame.called /\ Did(frame, "LoadVolume")
   /\ input.data.range[2] > input.data.range[1])
  => /\ ScalePositive(impl.Scale)
     /\ \A i \in DOMAIN frame.encoded : frame.encoded[i].scale = impl.Scale

\* Signed short scalars of range [-2, 2] were uploaded: the scale is
\* VTK_SHORT_MAX / 4.
C18_Witness ==
  /\ frame.called /\ Did(frame, "LoadVolume")
  /\ input.data.dataType = "VTK_SHORT" /\ input.data.comps = 1
  /\ input.data.range = <<-2, 2>>
  /\ impl.Scale = << "VTK_SHORT_MAX", 4 >>

\* k * limit + n = m * limit, for the limit of digits v: the difference
\* (k - m) * limit + n is zero.
LimitEquation(k, v, n, m) ==
  LET low == (k - m) * v[2] + n
  IN  /\ low % 65536 = 0
      /\ (k - m) * v[1] + (low \div 65536) = 0

\* (raw + shift) * scale of the encoding e is 0.
EncodesToZero(e, raw) ==
  LimitEquation(raw, LimitValue(e.shift[2]), e.shift[1], 0)

\* (raw + shift) * scale of the encoding e, whose scale is the destination
\* type's maximum over the width of the range, is that maximum: raw + shift
\* is the width.
EncodesToMaximum(e, raw, width) ==
  LimitEquation(raw, LimitValue(e.shift[2]), e.shift[1], width)

\* C19: for one-component scalars of a type LoadVolume encodes and a range
\* with maximum > minimum, the shift and scale LoadVolume computes take the
\* range's minimum to 0 and its maximum to the destination type's maximum
\* under encoded = (raw + shift) * scale.
C19_RangeMapsOntoSpan ==
  \A i \in DOMAIN frame.encoded :
    LET e == frame.encoded[i]
        r == input.data.range
    IN  (/\ e.comps = 1
         /\ e.dataType \in EncodedScalarTypes
         /\ r[2] > r[1])
        => /\ e.scale = <<TypeMax(e.dataType), r[2] - r[1]>>
           /\ EncodesToZero(e, r[1])
           /\ EncodesToMaximum(e, r[2], r[2] - r[1])

\* C20: a render that issues the draw call has assigned a value to every
\* uniform slot Initialize declared before it draws.
C20_AllUniformsAssignedBeforeDraw ==
  (frame.called /\ frame.draws # <<>>)
  => /\ impl.Shader.uniforms = DeclaredUniforms
     /\ DeclaredUniforms \subseteq frame.uniforms

\* C21: a render that passes validation leaves the GL state it touched as
\* it found it: the enable flags (blend, depth test, texture 1D, 2D, 3D),
\* the active texture unit, the bound vertex array and the program in use
\* are after the render what they were before it.
C21_NoResidualGLState ==
  [][(IsRenderStep /\ frame'.validated) =>
       /\ \A cap \in frame'.glTouched :
            (cap \in gl'.enabled) <=> (cap \in gl.enabled)
       /\ gl'.activeTexture = gl.activeTexture
       /\ gl'.boundVAO = gl.boundVAO
       /\ gl'.program = gl.program]_vars

\* C22: in every render that passes validation step_size, cell_scale and
\* vol_extents_min / vol_extents_max come from the bounds ComputeBounds
\* cached for the volume: step_size is the reciprocal of the extent of that
\* box on each axis, cell_scale half of it, and vol_extents_min / _max are
\* its corners, which are also the corners uploaded as the cube's vertices.
C22_UniformsFromComputedBounds ==
  (frame.called /\ frame.validated)
  => /\ impl.StepSize = StepSizeOf(impl.Bounds)
     /\ impl.CellScale = CellScaleOf(impl.Bounds)
     /\ frame.volExtents =
          << <<impl.Bounds[1], impl.Bounds[3], impl.Bounds[5]>>,
             <<impl.Bounds[2], impl.Bounds[4], impl.Bounds[6]>> >>
     /\ gl.cube.vertices = CubeVertices(impl.Bounds)

\* C23: the steps of a render that passes validation are, in this order:
\* Initialize if the instance was not initialized; ComputeBounds, LoadVolume
\* and UpdateVolumeGeometry if the data was dirty; the opacity and the color
\* table updates; the noise texture; uniform marshaling and texture binding;
\* the one draw call; the restoring of state.
C23_StepOrder ==
  (frame.called /\ frame.validated)
  => frame.steps =
       (IF stats.validated = 1 THEN << "Initialize" >> ELSE <<>>)
       \o (IF frame.dirty
             THEN << "ComputeBounds", "LoadVolume", "UpdateVolumeGeometry" >>
             ELSE <<>>)
       \o << "UpdateOpacityTransferFunction", "UpdateColorTransferFunction",
             "UpdateNoiseTexture", "MarshalUniforms", "BindTextures", "Draw",
             "Restore" >>

\* A render of an initialized instance found modified data: it uploaded
\* before it updated the tables, without initializing again.
C23_Witness ==
  /\ frame.called /\ frame.validated
  /\ stats.validated = 2
  /\ frame.dirty
  /\ Len(frame.steps) = 10
  /\ frame.steps[1] = "ComputeBounds"
  /\ frame.steps[3] = "UpdateVolumeGeometry"
  /\ frame.steps[10] = "Restore"

\* Triangle t of the index list uploaded for the cube, t in 1..12.
CubeTriangle(t) ==
  << gl.cube.indices[3 * t - 2], gl.cube.indices[3 * t - 1],
     gl.cube.indices[3 * t] >>

\* How often the uploaded triangles run from vertex a to vertex b.
DirectedEdgeCount(a, b) ==
  Cardinality({ <<t, j>> \in (1..12) \X (1..3) :
                  /\ CubeTriangle(t)[j] = a
                  /\ CubeTriangle(t)[(j % 3) + 1] = b })

\* The vertices of the face of the box on the given side (0 minimum, 1
\* maximum) of the given axis, by the layout of the vertex array.
CubeFace(axis, side) ==
  { k \in 0..7 : CubeVertices(<<0, 1, 0, 1, 0, 1>>)[k + 1][axis] = side }

\* C24: the index list UpdateVolumeGeometry uploads has 36 entries, all in
\* 0..7, forming 12 triangles of three distinct vertices; each of the six
\* faces of the box holds exactly two of them; and the surface is closed and
\* consistently wound: every directed edge of a triangle occurs once and its
\* reverse once.
C24_CubeIndexList ==
  gl.cube.indices # <<>>
  => /\ Len(gl.cube.indices) = 36
     /\ \A n \in 1..36 : gl.cube.indices[n] \in 0..7
     /\ \A t \in 1..12 :
          Cardinality({ CubeTriangle(t)[j] : j \in 1..3 }) = 3
     /\ \A axis \in 1..3, side \in { 0, 1 } :
          Cardinality({ t \in 1..12 :
                          { CubeTriangle(t)[j] : j \in 1..3 }
                            \subseteq CubeFace(axis, side) }) = 2
     /\ \A a \in 0..7, b \in 0..7 :
          DirectedEdgeCount(a, b) <= 1
          /\ DirectedEdgeCount(a, b) = DirectedEdgeCount(b, a)

\* A render built the cube: 8 vertices and the 36 indices are uploaded.
C24_Witness ==
  /\ frame.called /\ Did(frame, "UpdateVolumeGeometry")
  /\ Len(gl.cube.vertices) = 8
  /\ Len(gl.cube.indices) = 36
  /\ DirectedEdgeCount(0, 5) = 1 /\ DirectedEdgeCount(5, 0) = 1

\* C25: every Render call invokes VolumeMapperRenderStartEvent once, before
\* any validation check, and VolumeMapperRenderEndEvent once, after all the
\* validation and all the steps of GPURender it does, in that order, whether
\* the validation passes or fails; no other step invokes an event, so over
\* a sequence of renders the events alternate, beginning with a start.
C25_StartAndEndEvents ==
  /\ frame.called =>
       /\ Len(frame.evaluated) >= 1
       /\ frame.events =
            << [name |-> "VolumeMapperRenderStartEvent",
                evaluated |-> 0, steps |-> 0],
               [name |-> "VolumeMapperRenderEndEvent",
                evaluated |-> Len(frame.evaluated),
                steps |-> Len(frame.steps)] >>
  /\ ~frame.called => frame.events = <<>>

\* A second Render call failed validation at its first check after one that
\* rendered: it invoked its start and its end event.
C25_Witness ==
  /\ frame.called /\ ~frame.validated
  /\ stats.renders = 2 /\ stats.validated = 1
  /\ frame.steps = <<>>
  /\ Len(frame.events) = 2
  /\ frame.events[2].name = "VolumeMapperRenderEndEvent"
  /\ frame.events[2].evaluated = 1

C27_OpacityUpdateGetsMapperBlendMode ==
  Len(frame.opacityUpdate) = 3
    => /\ frame.opacityUpdate[2] # Unassigned
       /\ frame.opacityUpdate[2] = frame.blendMode

\* C28: the destructor passes to delete only pointers that are null or that
\* Initialize or UpdateNoiseTexture allocated; it never deletes a pointer
\* that was never assigned, whatever state the mapper is destroyed in.
C28_DeletesOnlyAssignedPointers ==
  \A i \in DOMAIN frame.deleted : frame.deleted[i] # Unassigned

\* The extents, texture size and bounds the mapper computes from a dataset.
CachesOf(data, cellFlag) ==
  [Extents |-> data.extent,
   TextureSize |->
     [i \in 1..3 |-> data.extent[2 * i] - data.extent[2 * i - 1] + 1],
   Bounds |->
     IF cellFlag = 0
       THEN PointBounds(data.extent, data.spacing, data.origin)
       ELSE CellBounds(data.extent, data.spacing, data.origin)]

\* C29: after every validated render the cached voxel-index extents, the
\* texture size and the bounds are those of the mapper's current input, also
\* when the input was replaced between renders by a dataset whose
\* modification time is not newer than the last build time.
C29_CachesFollowCurrentInput ==
  (frame.called /\ frame.validated)
    => LET c == CachesOf(input.data, impl.CellFlag)
       IN  /\ impl.Extents = c.Extents
           /\ impl.TextureSize = c.TextureSize
           /\ impl.Bounds = c.Bounds

====
